---- MODULE Spec2Model ----
(***************************************************************************)
(* A model of the discord-clone repository:                                *)
(*   - the ServerSearch component (components/server/server-search.tsx):   *)
(*     its open flag, its event handlers and the element tree it renders;  *)
(*   - the invite system of README.md (generateInviteLink, joinServer);    *)
(*   - the Socket.io setup of README.md (initializeSocket).                *)
(* Each part has its own specification: Spec, SpecInvite, SpecSocket.      *)
(***************************************************************************)
EXTENDS Integers, Sequences, FiniteSets, TLC

VARIABLES
    data,       \* ServerSearch: the `data` prop, a sequence of groups
    open,       \* ServerSearch: useState(false), the open flag
    view,       \* ServerSearch: the element tree of the last render pass
    lastEvent,  \* ServerSearch: the event handler that ran last
    propCalls,  \* ServerSearch: caller-supplied callbacks invoked so far
    invites,    \* invite system: rows of prisma.invite
    members,    \* invite system: rows of prisma.serverMember, in creation order
    now,        \* invite system: the wall clock, in milliseconds
    ticks,      \* invite system: how often the clock has advanced
    joins,      \* invite system: per user, the state of their joinServer call
    connected,  \* Socket.io: the sockets whose 'connection' handler has run
    rooms,      \* Socket.io: the <<room name, socket>> memberships
    issued,     \* Socket.io: the <<socket, serverId>> of every 'join-server' handled
    inbox,      \* Socket.io: per socket, the events delivered to it, in order
    sent        \* Socket.io: the client events handled so far, in order

searchVars == <<data, open, view, lastEvent, propCalls>>
inviteVars == <<invites, members, now, ticks, joins>>
socketVars == <<connected, rooms, issued, inbox, sent>>
vars == <<data, open, view, lastEvent, propCalls, invites, members, now, ticks,
          joins, connected, rooms, issued, inbox, sent>>

(***************************************************************************)
(* Bounds of the model.                                                    *)
(***************************************************************************)
MaxGroups == 2
MaxItems == 2
MaxTicks == 2
MaxMembers == 2
MaxSent == 2

SeqsUpTo(S, n) == UNION {[1..k -> S] : k \in 0..n}

RECURSIVE Flatten(_)
Flatten(ss) == IF ss = <<>> THEN <<>> ELSE Head(ss) \o Flatten(Tail(ss))

Range(s) == {s[i] : i \in DOMAIN s}

(***************************************************************************)
(* ServerSearch: the input type, ServerSearchProps.                        *)
(***************************************************************************)
\* The item records { icon, name, id } the inputs are drawn from.
SearchItems ==
    { [id |-> "1", name |-> "general", icon |-> "hash"],
      [id |-> "2", name |-> "alice", icon |-> "shield"] }

\* `data: {...}[] | undefined`: an absent array is distinct from an empty one.
Undefined == [present |-> FALSE, items |-> <<>>]
Array(s) == [present |-> TRUE, items |-> s]
ItemArrays == {Undefined} \cup {Array(s) : s \in SeqsUpTo(SearchItems, MaxItems)}

\* The groups { label, type, data } the inputs are drawn from.
SearchGroups ==
    { [label |-> h[1], type |-> h[2], data |-> d] :
        h \in { <<"Text Channels", "channel">>, <<"Members", "member">> },
        d \in ItemArrays }

ServerSearchProps == SeqsUpTo(SearchGroups, MaxGroups)

(***************************************************************************)
(* ServerSearch: the render pass.                                          *)
(***************************************************************************)
NotLength_emptyOnly(d) == d.present /\ Len(d.items) = 0

NotLength_absentOnly(d) == ~d.present

\* `!data?.length`: true of an absent array and of an array of length 0.
NotLength(d) == (~d.present) \/ Len(d.items) = 0

CommandItem_keyName(item) ==
    [key |-> item.name, icon |-> item.icon, name |-> item.name]

\* <CommandItem key={id}>{icon}<span>{name}</span></CommandItem>
CommandItem(item) == [key |-> item.id, icon |-> item.icon, name |-> item.name]

CommandGroup_headingType(g) ==
    [ key |-> g.label,
      heading |-> g.type,
      rows |-> [i \in 1..Len(g.data.items) |-> CommandItem(g.data.items[i])] ]

\* <CommandGroup key={label} heading={label}>{data?.map(...)}</CommandGroup>
CommandGroup(g) ==
    [ key |-> g.label,
      heading |-> g.label,
      rows |-> [i \in 1..Len(g.data.items) |-> CommandItem(g.data.items[i])] ]

\* One step of data.map: null (rendered as nothing, <<>>) or one group.
RenderGroup(g) == IF NotLength(g.data) THEN <<>> ELSE <<CommandGroup(g)>>

\* The children handed to <CommandDialog>: the input, the list holding the
\* empty-state element, and the mapped groups.
DialogChildren(d) ==
    [ input |-> "Search all channels and members",
      empty |-> "No Result found",
      groups |-> [i \in 1..Len(d) |-> RenderGroup(d[i])] ]

ServerSearch_openIgnored(o, d) ==
    [ button |-> "Search",
      dialog |-> [open |-> TRUE, children |-> DialogChildren(d)] ]

\* The fragment ServerSearch returns: the trigger button, and the dialog
\* element with its `open` prop and its children.
ServerSearch(o, d) ==
    [ button |-> "Search",
      dialog |-> [open |-> o, children |-> DialogChildren(d)] ]

\* The dialog primitive of ../ui/command, given the props of the dialog
\* element: it shows nothing while `open` is false; while open it shows the
\* input, the groups that are not null, and the empty-state element only
\* when no item row is mounted.
CommandDialog(props) ==
    IF ~props.open THEN <<>>
    ELSE LET shown == Flatten(props.children.groups)
             count == Len(Flatten([i \in 1..Len(shown) |-> shown[i].rows]))
         IN  << [ input |-> props.children.input,
                  empty |-> IF count = 0 THEN <<props.children.empty>> ELSE <<>>,
                  groups |-> shown ] >>

\* What is on screen of the dialog: <<>> or one dialog surface.
Screen == CommandDialog(view.dialog)

(***************************************************************************)
(* ServerSearch: the state and its event handlers.                         *)
(***************************************************************************)
\* setOpen(v) followed by the render pass React schedules for it.
setOpen(v) ==
    /\ open' = v
    /\ view' = ServerSearch(v, data)

ClickTrigger_noCall ==
    /\ UNCHANGED <<open, view>>
    /\ lastEvent' = "click"
    /\ UNCHANGED <<data, propCalls>>
    /\ UNCHANGED <<inviteVars, socketVars>>

ClickTrigger_toggle ==
    /\ setOpen(~open)
    /\ lastEvent' = "click"
    /\ UNCHANGED <<data, propCalls>>
    /\ UNCHANGED <<inviteVars, socketVars>>

\* onClick={() => setOpen(true)} of the trigger button.
ClickTrigger ==
    /\ setOpen(TRUE)
    /\ lastEvent' = "click"
    /\ UNCHANGED <<data, propCalls>>
    /\ UNCHANGED <<inviteVars, socketVars>>

\* onOpenChange={setOpen}
onOpenChange(v) == setOpen(v)

\* The dialog primitive reports a dismissal (escape, outside click): it
\* calls onOpenChange(false), and only while it is open.
DismissDialog ==
    /\ open
    /\ onOpenChange(FALSE)
    /\ lastEvent' = "dismiss"
    /\ UNCHANGED <<data, propCalls>>
    /\ UNCHANGED <<inviteVars, socketVars>>

onSelect_close(g, i) ==
    /\ setOpen(FALSE)
    /\ UNCHANGED <<data, propCalls>>

\* <CommandItem> is given no onSelect: selecting row i of shown group g
\* runs no code of the component.
onSelect(g, i) == UNCHANGED <<open, view, data, propCalls>>

\* The user selects a row that is on screen.
SelectItem ==
    /\ Screen # <<>>
    /\ \E g \in 1..Len(Screen[1].groups) :
         \E i \in 1..Len(Screen[1].groups[g].rows) :
            onSelect(g, i)
    /\ lastEvent' = "select"
    /\ UNCHANGED <<inviteVars, socketVars>>

\* The component is mounted with its props; useState(false).
InitSearch ==
    /\ data \in ServerSearchProps
    /\ open = FALSE
    /\ view = ServerSearch(FALSE, data)
    /\ lastEvent = "mount"
    /\ propCalls = <<>>

IdleInvite ==
    /\ invites = {}
    /\ members = <<>>
    /\ now = 0
    /\ ticks = 0
    /\ joins = <<>>

IdleSocket ==
    /\ connected = {}
    /\ rooms = {}
    /\ issued = {}
    /\ inbox = <<>>
    /\ sent = <<>>

Init == InitSearch /\ IdleInvite /\ IdleSocket

Next ==
    \/ ClickTrigger
    \/ DismissDialog
    \/ SelectItem

Spec == Init /\ [][Next]_vars

(***************************************************************************)
(* ServerSearch: the properties.                                           *)
(***************************************************************************)
\* The groups of the input that have at least one item, in input order.
HasItems(g) == g.data.present /\ Len(g.data.items) >= 1
GroupsWithItems == SelectSeq(data, HasItems)

\* The groups of the element tree that are not null, in order.
RenderedGroups == Flatten(view.dialog.children.groups)

\* The rows of the element tree, over all its groups, in order.
RenderedRows ==
    Flatten([k \in 1..Len(RenderedGroups) |-> RenderedGroups[k].rows])

\* The items of the input, over all groups that have an array, in order.
InputItems ==
    Flatten([i \in 1..Len(data) |-> data[i].data.items])

\* Well-formed input: item ids pairwise distinct across all groups.
WellFormed ==
    \A i, j \in 1..Len(InputItems) : i # j => InputItems[i].id # InputItems[j].id

\* C1: a group whose item array is absent or empty yields no rendered group
\* (map returns null for it), and every group with at least one item yields
\* exactly one rendered group, which has rows.
C1_EmptyGroupsNotRendered ==
    /\ \A i \in 1..Len(data) :
          LET r == view.dialog.children.groups[i] IN
          IF HasItems(data[i])
          THEN Len(r) = 1 /\ r[1].heading = data[i].label /\ r[1].rows # <<>>
          ELSE r = <<>>
    /\ Len(RenderedGroups) = Len(GroupsWithItems)
    /\ open => Len(Screen[1].groups) = Len(GroupsWithItems)

C1_Witness ==
    /\ open
    /\ Len(data) = 2
    /\ HasItems(data[1])
    /\ data[2].data = Array(<<>>)
    /\ Len(Screen[1].groups) = 1

\* C2: for well-formed input the set of keys of the rendered item rows is
\* the set of item ids of the groups with items; one row per item.
C2_KeysAreIds ==
    WellFormed =>
        /\ {RenderedRows[k].key : k \in 1..Len(RenderedRows)}
             = {InputItems[i].id : i \in 1..Len(InputItems)}
        /\ Len(RenderedRows) = Len(InputItems)

C2_Witness ==
    /\ open
    /\ WellFormed
    /\ Len(data) = 2
    /\ Len(InputItems) = 2
    /\ Len(RenderedRows) = 2

\* C3: a step of the trigger's onClick ends Open with the dialog element
\* open, whatever the state before, and changes nothing else.
C3_ClickOpens ==
    [][lastEvent' = "click" =>
          /\ open' = TRUE
          /\ view'.dialog.open = TRUE
          /\ data' = data
          /\ propCalls' = propCalls]_vars

C3_Witness == lastEvent = "click" /\ open /\ Screen # <<>>

\* C4: the flag starts Closed, and in every state where the flag is Closed
\* no dialog surface is on screen.
C4_ClosedShowsNothing ==
    /\ open = FALSE
    /\ [](open = FALSE => Screen = <<>>)

C4_Witness == lastEvent = "dismiss" /\ ~open /\ Screen = <<>>

\* C5: the flag is always Closed or Open; it goes from Closed to Open only
\* in a step of the trigger's onClick, and from Open to Closed only in a
\* step where the dialog primitive reports a dismissal.
C5_OnlyTwoTransitions ==
    /\ [](open \in BOOLEAN)
    /\ [][/\ (~open /\ open') => lastEvent' = "click"
          /\ (open /\ ~open') => lastEvent' = "dismiss"]_vars

C5_Witness == lastEvent = "dismiss" /\ ~open

\* C6: while Open with no item in any group, the "No Result found"
\* placeholder is on screen, and no group heading and no row is.
C6_OnlyPlaceholder ==
    (open /\ \A i \in 1..Len(data) :
                 (~data[i].data.present) \/ data[i].data.items = <<>>)
    => /\ Len(Screen) = 1
       /\ Screen[1].empty = <<"No Result found">>
       /\ Screen[1].groups = <<>>

C6_Witness ==
    /\ open
    /\ Len(data) = 2
    /\ data[1].data = Undefined
    /\ data[2].data = Array(<<>>)
    /\ Screen[1].empty = <<"No Result found">>

\* C9: a step that selects an item row leaves the open flag, the input
\* data and the element tree as they were and invokes no callback of the
\* caller.
C9_SelectChangesNothing ==
    [][lastEvent' = "select" =>
          /\ open' = open
          /\ data' = data
          /\ view' = view
          /\ propCalls' = propCalls]_vars

C9_Witness == lastEvent = "select" /\ open /\ propCalls = <<>>

\* C10: the rendered headings are the labels of the groups with items, in
\* input order, and the rows of each rendered group are its items in order,
\* each keyed by its id and showing its name; the input of one group "Text
\* Channels" with the item (id "1", name "general") renders one heading
\* "Text Channels" and one row "general" keyed "1".
C10_OrderPreserved ==
    /\ Len(RenderedGroups) = Len(GroupsWithItems)
    /\ \A k \in 1..Len(RenderedGroups) :
          LET r == RenderedGroups[k]
              g == GroupsWithItems[k]
          IN  /\ r.heading = g.label
              /\ Len(r.rows) = Len(g.data.items)
              /\ \A j \in 1..Len(r.rows) :
                    /\ r.rows[j].key = g.data.items[j].id
                    /\ r.rows[j].name = g.data.items[j].name
    /\ (Len(data) = 1 /\ data[1].label = "Text Channels"
          /\ Len(data[1].data.items) = 1 /\ data[1].data.items[1].id = "1")
       => /\ Len(RenderedGroups) = 1
          /\ RenderedGroups[1].heading = "Text Channels"
          /\ Len(RenderedRows) = 1
          /\ RenderedRows[1].name = "general"
          /\ RenderedRows[1].key = "1"

C10_Witness ==
    /\ open
    /\ Len(data) = 2
    /\ data[1].label = "Members"
    /\ data[2].label = "Text Channels"
    /\ Len(data[1].data.items) = 2
    /\ data[1].data.items[1].id = "2"
    /\ data[1].data.items[2].id = "1"
    /\ Len(data[2].data.items) = 1
    /\ Len(Screen[1].groups) = 2

(***************************************************************************)
(* The invite system of README.md (lib/invites.ts).                        *)
(***************************************************************************)
Servers == {"s1", "s2"}
Users == {"u1", "u2"}
InviteCodes == {"c1", "c2"}
\* The codes a caller may present: the generated ones and one never issued.
PresentedCodes == InviteCodes \cup {"zz"}

\* 24 * 60 * 60 * 1000 milliseconds.
InviteTtl == 24 * 60 * 60 * 1000

\* The clock advances by a millisecond or by a day.
TickSteps == {1, InviteTtl}

\* generateUniqueCode(): some code no stored invite carries.
generateUniqueCode == InviteCodes \ {i.code : i \in invites}

\* generateInviteLink(serverId): prisma.invite.create with a fresh code and
\* expiresAt one day from now.
generateInviteLink(serverId) ==
    /\ \E c \in generateUniqueCode :
          invites' = invites \cup
              {[serverId |-> serverId, code |-> c, expiresAt |-> now + InviteTtl]}
    /\ UNCHANGED <<members, now, ticks, joins>>
    /\ UNCHANGED <<searchVars, socketVars>>

GenerateInvite == \E s \in Servers : generateInviteLink(s)

\* The clock moves on.
Tick ==
    /\ ticks < MaxTicks
    /\ \E d \in TickSteps : now' = now + d
    /\ ticks' = ticks + 1
    /\ UNCHANGED <<invites, members, joins>>
    /\ UNCHANGED <<searchVars, socketVars>>

NoCall == [pc |-> "idle", code |-> "", found |-> {}, result |-> "none"]

InFlight == {u \in Users : joins[u].pc # "idle"}

\* joinServer(inviteCode, userId) is called: findUnique is issued.
JoinCall(u, c) ==
    /\ joins[u].pc = "idle"
    /\ Len(members) + Cardinality(InFlight) < MaxMembers
    /\ joins' = [joins EXCEPT ![u] =
                    [pc |-> "find", code |-> c, found |-> {}, result |-> "none"]]
    /\ UNCHANGED <<invites, members, now, ticks>>
    /\ UNCHANGED <<searchVars, socketVars>>

\* prisma.invite.findUnique({ where: { code } }) answers: the invite with
\* that code, or null.
JoinFind(u) ==
    /\ joins[u].pc = "find"
    /\ joins' = [joins EXCEPT ![u].pc = "check",
                              ![u].found = {i \in invites : i.code = joins[u].code}]
    /\ UNCHANGED <<invites, members, now, ticks>>
    /\ UNCHANGED <<searchVars, socketVars>>

Expired_flipped(inv, t) == inv.expiresAt > t

\* invite.expiresAt < new Date()
Expired(inv, t) == inv.expiresAt < t

\* if (!invite || invite.expiresAt < new Date()) throw ...; otherwise
\* prisma.serverMember.create is issued.
JoinCheck(u) ==
    /\ joins[u].pc = "check"
    /\ IF joins[u].found = {} \/ \E i \in joins[u].found : Expired(i, now)
       THEN joins' = [joins EXCEPT ![u].pc = "idle",
                                   ![u].result = "Invalid or expired invite"]
       ELSE joins' = [joins EXCEPT ![u].pc = "create"]
    /\ UNCHANGED <<invites, members, now, ticks>>
    /\ UNCHANGED <<searchVars, socketVars>>

\* prisma.serverMember.create({ serverId: invite.serverId, userId, role: 'GUEST' })
JoinCreate(u) ==
    /\ joins[u].pc = "create"
    /\ \E i \in joins[u].found :
          members' = Append(members,
              [serverId |-> i.serverId, userId |-> u, role |-> "GUEST"])
    /\ joins' = [joins EXCEPT ![u].pc = "idle", ![u].result = "member"]
    /\ UNCHANGED <<invites, now, ticks>>
    /\ UNCHANGED <<searchVars, socketVars>>

JoinServerCall == \E u \in Users, c \in PresentedCodes : JoinCall(u, c)
JoinServerFind == \E u \in Users : JoinFind(u)
JoinServerCheck == \E u \in Users : JoinCheck(u)
JoinServerCreate == \E u \in Users : JoinCreate(u)

\* No component mounted: the search state stays as it is.
IdleSearch ==
    /\ data = <<>>
    /\ open = FALSE
    /\ view = ServerSearch(FALSE, <<>>)
    /\ lastEvent = "mount"
    /\ propCalls = <<>>

InitInvite ==
    /\ invites = {}
    /\ members = <<>>
    /\ now = 0
    /\ ticks = 0
    /\ joins = [u \in Users |-> NoCall]
    /\ IdleSearch
    /\ IdleSocket

NextInvite ==
    \/ GenerateInvite
    \/ Tick
    \/ JoinServerCall
    \/ JoinServerFind
    \/ JoinServerCheck
    \/ JoinServerCreate

SpecInvite == InitInvite /\ [][NextInvite]_vars

\* C7: joinServer with a code no stored invite carried, or with an invite
\* whose expiresAt is earlier than the time it reads, fails with 'Invalid or
\* expired invite' and creates no member; a member is created only by a call
\* whose invite exists and had not expired when checked, with role GUEST and
\* the invite's server.
C7_JoinRejectsBadInvite ==
    /\ [](\A u \in Users :
            joins[u].pc = "create" =>
                \E i \in invites : i.code = joins[u].code /\ joins[u].found = {i})
    /\ [][/\ \A u \in Users :
               (joins[u].pc = "check" /\ joins'[u] # joins[u]) =>
                  IF \/ joins[u].found = {}
                     \/ \E i \in joins[u].found : i.expiresAt < now
                  THEN /\ joins'[u].result = "Invalid or expired invite"
                       /\ joins'[u].pc = "idle"
                       /\ members' = members
                  ELSE /\ joins'[u].pc = "create"
                       /\ members' = members
          /\ members' # members =>
               \E u \in Users :
                  /\ joins[u].pc = "create"
                  /\ joins'[u].result = "member"
                  /\ \E i \in invites :
                        /\ i.code = joins[u].code
                        /\ members' = Append(members,
                              [serverId |-> i.serverId, userId |-> u,
                               role |-> "GUEST"])]_vars

C7_Witness ==
    /\ members # <<>>
    /\ \E u \in Users :
          /\ joins[u].result = "Invalid or expired invite"
          /\ joins[u].found # {}
    /\ \E u \in Users :
          /\ joins[u].result = "Invalid or expired invite"
          /\ joins[u].found = {}

(***************************************************************************)
(* The Socket.io setup of README.md (socket/index.ts).                     *)
(***************************************************************************)
Sockets == {"k1", "k2", "k3"}
ServerIds == {"a", "b"}
\* The message objects clients send: they carry a serverId.
Messages == {[serverId |-> id, content |-> "hi"] : id \in ServerIds}

\* `server-${serverId}`
RoomName(serverId) == "server-" \o serverId

\* io.on('connection', (socket) => { ... }): the handlers are registered.
Connect(k) ==
    /\ k \notin connected
    /\ connected' = connected \cup {k}
    /\ UNCHANGED <<rooms, issued, inbox, sent>>
    /\ UNCHANGED <<searchVars, inviteVars>>

\* socket.on('join-server', (serverId) => socket.join(`server-${serverId}`))
JoinRoom(k, serverId) ==
    /\ k \in connected
    /\ rooms' = rooms \cup {<<RoomName(serverId), k>>}
    /\ issued' = issued \cup {<<k, serverId>>}
    /\ UNCHANGED <<connected, inbox, sent>>
    /\ UNCHANGED <<searchVars, inviteVars>>

To_everyone(room) == connected

\* io.to(room): the sockets in the room.
To(room) == {k \in Sockets : <<room, k>> \in rooms}

\* io.to(room).emit(event, message)
Emit(room, event, message) ==
    inbox' = [k \in Sockets |->
                 IF k \in To(room)
                 THEN Append(inbox[k], [event |-> event, message |-> message])
                 ELSE inbox[k]]

\* socket.on('send-message', (message) =>
\*     io.to(`server-${message.serverId}`).emit('new-message', message))
SendMessage(k, message) ==
    /\ k \in connected
    /\ Len(sent) < MaxSent
    /\ Emit(RoomName(message.serverId), "new-message", message)
    /\ sent' = Append(sent, [event |-> "send-message", message |-> message])
    /\ UNCHANGED <<connected, rooms, issued>>
    /\ UNCHANGED <<searchVars, inviteVars>>

\* socket.on('edit-message', (message) =>
\*     io.to(`server-${message.serverId}`).emit('message-update', message))
EditMessage(k, message) ==
    /\ k \in connected
    /\ Len(sent) < MaxSent
    /\ Emit(RoomName(message.serverId), "message-update", message)
    /\ sent' = Append(sent, [event |-> "edit-message", message |-> message])
    /\ UNCHANGED <<connected, rooms, issued>>
    /\ UNCHANGED <<searchVars, inviteVars>>

OnConnection == \E k \in Sockets : Connect(k)
OnJoinServer == \E k \in Sockets, id \in ServerIds : JoinRoom(k, id)
OnSendMessage == \E k \in Sockets, m \in Messages : SendMessage(k, m)
OnEditMessage == \E k \in Sockets, m \in Messages : EditMessage(k, m)

\* initializeSocket(server): no socket connected, no room.
InitSocket ==
    /\ connected = {}
    /\ rooms = {}
    /\ issued = {}
    /\ inbox = [k \in Sockets |-> <<>>]
    /\ sent = <<>>
    /\ IdleSearch
    /\ IdleInvite

NextSocket ==
    \/ OnConnection
    \/ OnJoinServer
    \/ OnSendMessage
    \/ OnEditMessage

SpecSocket == InitSocket /\ [][NextSocket]_vars

\* The event the server emits for a client event.
Answer(event) ==
    IF event = "send-message" THEN "new-message" ELSE "message-update"

\* C8: every handled 'send-message' (resp. 'edit-message') carrying serverId S
\* appends one 'new-message' (resp. 'message-update') to the inbox of exactly
\* the sockets that issued 'join-server' for S before, and leaves every other
\* inbox as it was; and no inbox changes in any other step.
C8_FanOutToJoined ==
    [][/\ sent' # sent =>
            LET ev == sent'[Len(sent')] IN
            \A k \in Sockets :
               inbox'[k] =
                  IF <<k, ev.message.serverId>> \in issued
                  THEN Append(inbox[k],
                          [event |-> Answer(ev.event), message |-> ev.message])
                  ELSE inbox[k]
       /\ sent' = sent => inbox' = inbox]_vars

C8_Witness ==
    /\ <<"k1", "a">> \in issued
    /\ <<"k2", "b">> \in issued
    /\ "k3" \in connected
    /\ Len(inbox["k1"]) = 1
    /\ inbox["k1"][1].event = "new-message"
    /\ Len(inbox["k2"]) = 1
    /\ inbox["k2"][1].event = "message-update"
    /\ inbox["k3"] = <<>>

====
